---- MODULE Spec2Model ----
(***************************************************************************)
(* A model of textcontent.py: the inner-text collection walk               *)
(* (inner_text_collection), the whitespace normaliser (do_whitespace,      *)
(* do_whitespace_internal, segment_break_transformation) and the           *)
(* finalizer (get_textContent).                                            *)
(*                                                                         *)
(* Strings are sequences of one-character strings.  A collection item is   *)
(* a record: a text item carries its string in s, an integer item (a       *)
(* required line break count, BLOCK_BEGIN or BLOCK_END) carries it in n.   *)
(* A node is a record with the fields the code reads from bs4: its class   *)
(* (type), name, attrs and children; string is the text of a               *)
(* NavigableString or Comment.                                             *)
(***************************************************************************)
EXTENDS Integers, Sequences, FiniteSets, TLC

\* ------------------------------------------------------------ characters
SP  == " "
TAB == "\t"
LF  == "\n"
ZWS == "u200b"
CharA == "a"
CharB == "b"

\* ------------------------------------------------------ collection items
BLOCK_BEGIN == -1
BLOCK_END == -2

Text(str) == [isText |-> TRUE, s |-> str, n |-> 0]
Num(k) == [isText |-> FALSE, s |-> <<>>, n |-> k]

\* isinstance(item, text_type)
IsText(item) == item.isText
\* isinstance(item, int)
IsInt(item) == ~item.isText

\* ------------------------------------------------------------- sequences
RECURSIVE Concat(_)
\* "".join(l) for a list of strings, items.extend for a list of lists
Concat(l) == IF l = <<>> THEN <<>> ELSE Head(l) \o Concat(Tail(l))

RECURSIVE Repeat(_, _)
\* c * k
Repeat(c, k) == IF k <= 0 THEN <<>> ELSE <<c>> \o Repeat(c, k - 1)

RECURSIVE RunEnd(_, _, _)
\* the first position j >= i of s that holds no character of set cs
RunEnd(s, i, cs) ==
    IF i <= Len(s) /\ s[i] \in cs THEN RunEnd(s, i + 1, cs) ELSE i

\* ------------------------------------------------- regular expressions
RECURSIVE remove_whitespace_before_segment_break(_, _)
\* re.compile(r"[ \t]+\n").sub("\n", s), scanning from position i
remove_whitespace_before_segment_break(s, i) ==
    IF i > Len(s) THEN <<>>
    ELSE LET j == RunEnd(s, i, {SP, TAB})
         IN IF j > i /\ j <= Len(s) /\ s[j] = LF
            THEN <<LF>> \o remove_whitespace_before_segment_break(s, j + 1)
            ELSE <<s[i]>> \o remove_whitespace_before_segment_break(s, i + 1)

RECURSIVE remove_whitespace_after_segment_break(_, _)
\* re.compile(r"\n[ \t]+").sub("\n", s), scanning from position i
remove_whitespace_after_segment_break(s, i) ==
    IF i > Len(s) THEN <<>>
    ELSE LET j == RunEnd(s, i + 1, {SP, TAB})
         IN IF s[i] = LF /\ j > i + 1
            THEN <<LF>> \o remove_whitespace_after_segment_break(s, j)
            ELSE <<s[i]>> \o remove_whitespace_after_segment_break(s, i + 1)

RECURSIVE collapse_newlines(_, _)
\* re.compile(r"\n{2,}").sub("\n", s), scanning from position i
collapse_newlines(s, i) ==
    IF i > Len(s) THEN <<>>
    ELSE LET j == RunEnd(s, i, {LF})
         IN IF j >= i + 2
            THEN <<LF>> \o collapse_newlines(s, j)
            ELSE <<s[i]>> \o collapse_newlines(s, i + 1)

RECURSIVE remove_ZWS_segment_breaks(_, _)
\* re.compile(r"\n*\u200b\n*").sub("\u200b", s), scanning from position i
remove_ZWS_segment_breaks(s, i) ==
    IF i > Len(s) THEN <<>>
    ELSE LET j == RunEnd(s, i, {LF})
         IN IF j <= Len(s) /\ s[j] = ZWS
            THEN <<ZWS>> \o remove_ZWS_segment_breaks(s, RunEnd(s, j + 1, {LF}))
            ELSE <<s[i]>> \o remove_ZWS_segment_breaks(s, i + 1)

RECURSIVE reduce_spaces(_, _)
\* re.compile(r" {2,}").sub(" ", s), scanning from position i
reduce_spaces(s, i) ==
    IF i > Len(s) THEN <<>>
    ELSE LET j == RunEnd(s, i, {SP})
         IN IF j >= i + 2
            THEN <<SP>> \o reduce_spaces(s, j)
            ELSE <<s[i]>> \o reduce_spaces(s, i + 1)

\* s.replace(old, new) for single characters
replace(s, old, new) == [i \in 1..Len(s) |-> IF s[i] = old THEN new ELSE s[i]]

RECURSIVE lstrip(_, _)
lstrip(s, c) == IF s # <<>> /\ Head(s) = c THEN lstrip(Tail(s), c) ELSE s

RECURSIVE rstrip(_, _)
rstrip(s, c) ==
    IF s # <<>> /\ s[Len(s)] = c THEN rstrip(SubSeq(s, 1, Len(s) - 1), c) ELSE s

\* s.strip(c)
strip(s, c) == rstrip(lstrip(s, c), c)

\* ------------------------------------------------ whitespace processing
segment_break_transformation(s) ==
    LET s1 == collapse_newlines(s, 1)
    IN remove_ZWS_segment_breaks(s1, 1)

\* do_whitespace_internal with the spaces reduced before tabs and line-feeds
\* are replaced
do_whitespace_internal_reduce_first(l) ==
    LET s0 == Concat(l)
        s1 == remove_whitespace_before_segment_break(s0, 1)
        s2 == remove_whitespace_after_segment_break(s1, 1)
        s3 == segment_break_transformation(s2)
        s4 == reduce_spaces(s3, 1)
        s5 == replace(s4, TAB, SP)
        s6 == replace(s5, LF, SP)
    IN strip(s6, SP)

do_whitespace_internal(l) ==
    LET s0 == Concat(l)
        s1 == remove_whitespace_before_segment_break(s0, 1)
        s2 == remove_whitespace_after_segment_break(s1, 1)
        s3 == segment_break_transformation(s2)
        s4 == replace(s3, TAB, SP)
        s5 == replace(s4, LF, SP)
        s6 == reduce_spaces(s5, 1)
    IN strip(s6, SP)

\* the locals of do_whitespace before its loop
do_whitespace_init == [output_items |-> <<>>, collected |-> <<>>, skip_to_block_end |-> 0]

\* do_whitespace_step with a flag for a depth counter: BLOCK_BEGIN sets it and
\* BLOCK_END clears it
do_whitespace_step_flag(st, item) ==
    LET flush == st.skip_to_block_end = 0 /\ ~IsText(item) /\ st.collected # <<>>
        out1 == IF st.skip_to_block_end = 0
                THEN IF flush
                     THEN Append(st.output_items, Text(do_whitespace_internal(st.collected)))
                     ELSE st.output_items
                ELSE IF ~(IsInt(item) /\ item.n \in {BLOCK_BEGIN, BLOCK_END})
                     THEN Append(st.output_items, item)
                     ELSE st.output_items
        col1 == IF st.skip_to_block_end = 0
                THEN IF IsText(item) THEN Append(st.collected, item.s)
                     ELSE <<>>
                ELSE st.collected
        isBegin == IsInt(item) /\ item.n = BLOCK_BEGIN
        isEnd == IsInt(item) /\ item.n = BLOCK_END
    IN [output_items |-> IF isBegin \/ isEnd THEN Append(out1, item) ELSE out1,
        collected |-> col1,
        skip_to_block_end |-> IF isBegin THEN 1
                              ELSE IF isEnd THEN 0
                              ELSE st.skip_to_block_end]

\* one iteration of the loop of do_whitespace
do_whitespace_step(st, item) ==
    LET flush == st.skip_to_block_end = 0 /\ ~IsText(item) /\ st.collected # <<>>
        out1 == IF st.skip_to_block_end = 0
                THEN IF flush
                     THEN Append(st.output_items, Text(do_whitespace_internal(st.collected)))
                     ELSE st.output_items
                ELSE IF ~(IsInt(item) /\ item.n \in {BLOCK_BEGIN, BLOCK_END})
                     THEN Append(st.output_items, item)
                     ELSE st.output_items
        col1 == IF st.skip_to_block_end = 0
                THEN IF IsText(item) THEN Append(st.collected, item.s)
                     ELSE <<>>
                ELSE st.collected
        isBegin == IsInt(item) /\ item.n = BLOCK_BEGIN
        isEnd == IsInt(item) /\ item.n = BLOCK_END
    IN [output_items |-> IF isBegin \/ isEnd THEN Append(out1, item) ELSE out1,
        collected |-> col1,
        skip_to_block_end |-> IF isBegin THEN st.skip_to_block_end + 1
                              ELSE IF isEnd THEN st.skip_to_block_end - 1
                              ELSE st.skip_to_block_end]

RECURSIVE do_whitespace_loop(_, _)
\* the locals of do_whitespace after k iterations over items
do_whitespace_loop(items, k) ==
    IF k = 0 THEN do_whitespace_init
    ELSE do_whitespace_step(do_whitespace_loop(items, k - 1), items[k])

do_whitespace(items) ==
    LET st == do_whitespace_loop(items, Len(items))
    IN Append(st.output_items, Text(do_whitespace_internal(st.collected)))

\* ------------------------------------------------------------------ nodes
\* bs4 classes; Comment is a subclass of NavigableString
TagType == "Tag"
NavigableStringType == "NavigableString"
CommentType == "Comment"

\* el.parent.name of a node that has no parent element
NoParent == "[document]"

NavigableString(str) ==
    [type |-> NavigableStringType, name |-> "", attrs |-> {}, string |-> str,
     children |-> <<>>, parent |-> NoParent]

Comment(str) ==
    [type |-> CommentType, name |-> "", attrs |-> {}, string |-> str,
     children |-> <<>>, parent |-> NoParent]

\* an element; attrs is a set of <<attribute, value>> pairs; the children's
\* parent is this element
Tag(name, attrs, children) ==
    [type |-> TagType, name |-> name, attrs |-> attrs, string |-> <<>>,
     children |-> [i \in 1..Len(children) |-> [children[i] EXCEPT !.parent = name]],
     parent |-> NoParent]

\* isinstance(el, NavigableString)
IsNavigableString(el) == el.type \in {NavigableStringType, CommentType}

has_attr(el, attr) == \E p \in el.attrs : p[1] = attr

\* el.get(attr): <<>> for None, <<value>> otherwise
get(el, attr) ==
    IF has_attr(el, attr)
    THEN <<(CHOOSE p \in el.attrs : p[1] = attr)[2]>>
    ELSE <<>>

\* base_url is '' in every call modelled here, and urljoin('', url) is url
try_urljoin(base, url, allow_fragments) == url

NeverRendered ==
    {"area", "base", "basefont", "datalist", "head", "link", "meta", "noembed",
     "noframes", "param", "rp", "script", "source", "style", "template", "track",
     "title"}

\* is_rendered without the rule for the hidden attribute
is_rendered_no_hidden(node) ==
    IF node.type = CommentType THEN FALSE
    ELSE IF node.name = "dialog" /\ ~has_attr(node, "open") THEN FALSE
    ELSE IF node.name = "form"
            /\ node.parent \in {"table", "thead", "tbody", "tfoot", "tr"} THEN FALSE
    ELSE IF node.name \in NeverRendered THEN FALSE
    ELSE TRUE

is_rendered(node) ==
    IF node.type = CommentType THEN FALSE
    ELSE IF node.name = "dialog" /\ ~has_attr(node, "open") THEN FALSE
    ELSE IF node.name = "form"
            /\ node.parent \in {"table", "thead", "tbody", "tfoot", "tr"} THEN FALSE
    ELSE IF node.type = TagType /\ has_attr(node, "hidden") THEN FALSE
    ELSE IF node.name \in NeverRendered THEN FALSE
    ELSE TRUE

is_pre_rendered(el) == el.name \in {"listing", "plaintext", "pre", "xmp"}

BlockLevel ==
    {"address", "article", "aside", "blockquote", "details", "dialog", "dd", "div",
     "dl", "dt", "fieldset", "figcaption", "figure", "footer", "form", "h1", "h2",
     "h3", "h4", "h5", "h6", "header", "hgroup", "hr", "li", "main", "nav", "ol",
     "p", "pre", "section", "table", "ul"}

\* ------------------------------------------------- inner text collection
\* the image replacement of inner_text_collection: <<>> for None
img_value(el, img_to_src, base_url) ==
    LET alt == get(el, "alt")
    IN IF alt = <<>> /\ img_to_src
       THEN LET src == get(el, "src")
            IN IF src # <<>> THEN <<try_urljoin(base_url, src[1], TRUE)>> ELSE <<>>
       ELSE alt

\* tag_items with a <br> that yields its line-feed without the block markers
tag_items_plain_br(el, items, replace_img, img_to_src, base_url, required_line_break_count) ==
    LET i5 == IF el.name = "br" THEN <<Text(<<LF>>)>> ELSE items
        i8 == IF el.name = "p"
              THEN <<Num(required_line_break_count)>> \o i5
                   \o <<Num(required_line_break_count)>>
              ELSE i5
        value == img_value(el, img_to_src, base_url)
    IN IF el.name = "img" /\ replace_img /\ value # <<>>
       THEN <<Text(<<SP>> \o value[1] \o <<SP>>)>>
       ELSE i8

\* the steps of inner_text_collection for the tags br, p and img, given the
\* items of the children
tag_items(el, items, replace_img, img_to_src, base_url, required_line_break_count) ==
    LET i5 == IF el.name = "br"
              THEN <<Num(BLOCK_BEGIN), Text(<<LF>>), Num(BLOCK_END)>>
              ELSE items
        i8 == IF el.name = "p"
              THEN <<Num(required_line_break_count)>> \o i5
                   \o <<Num(required_line_break_count)>>
              ELSE i5
        value == img_value(el, img_to_src, base_url)
    IN IF el.name = "img" /\ replace_img /\ value # <<>>
       THEN <<Text(<<SP>> \o value[1] \o <<SP>>)>>
       ELSE i8

\* the argument of the call of do_whitespace in the block-level step
block_normalised(items, pre_mode) ==
    IF ~pre_mode THEN do_whitespace(items) ELSE items

\* block_items that closes the block with BLOCK_BEGIN
block_items_two_begins(el, items, pre_mode) ==
    IF el.name \in BlockLevel
    THEN <<Num(BLOCK_BEGIN), Num(1)>> \o block_normalised(items, pre_mode)
         \o <<Num(1), Num(BLOCK_BEGIN)>>
    ELSE items

\* the block-level step of inner_text_collection
block_items(el, items, pre_mode) ==
    IF el.name \in BlockLevel
    THEN <<Num(BLOCK_BEGIN), Num(1)>> \o block_normalised(items, pre_mode)
         \o <<Num(1), Num(BLOCK_END)>>
    ELSE items

RECURSIVE inner_text_collection(_, _, _, _, _, _, _)
inner_text_collection(el, replace_img, img_to_src, base_url, pre_mode, required_line_break_count, first) ==
    LET pm == pre_mode \/ is_pre_rendered(el)
        items == IF ~IsNavigableString(el)
                 THEN Concat([i \in 1..Len(el.children) |->
                         inner_text_collection(el.children[i], replace_img, img_to_src,
                                               base_url, pm, required_line_break_count,
                                               FALSE)])
                 ELSE <<>>
    IN IF ~first /\ ~is_rendered(el) THEN <<>>
       ELSE IF IsNavigableString(el) THEN <<Text(el.string)>>
       ELSE block_items(el,
                        tag_items(el, items, replace_img, img_to_src, base_url,
                                  required_line_break_count),
                        pm)

\* --------------------------------------------------------- get_textContent
\* results = [t for t in x if t not in ('', BLOCK_BEGIN, BLOCK_END)]
filter_results(x) ==
    SelectSeq(x, LAMBDA t : ~(t = Text(<<>>) \/ t = Num(BLOCK_BEGIN) \/ t = Num(BLOCK_END)))

RECURSIVE pop_leading(_)
\* while isinstance(results[0], int): results.pop(0)
pop_leading(results) ==
    IF results # <<>> /\ IsInt(Head(results)) THEN pop_leading(Tail(results))
    ELSE results

RECURSIVE pop_trailing(_)
\* while isinstance(results[-1], int): results.pop(-1)
pop_trailing(results) ==
    IF results # <<>> /\ IsInt(results[Len(results)])
    THEN pop_trailing(SubSeq(results, 1, Len(results) - 1))
    ELSE results

\* the locals of the final loop of get_textContent before it starts
join_init(results) == [results |-> [i \in 1..Len(results) |-> results[i].s], count |-> 0]

\* join_step that never updates the running count
join_step_no_count(st, i, t) ==
    IF IsInt(t)
    THEN IF t.n > st.count
         THEN [results |-> [st.results EXCEPT ![i] = Repeat(LF, t.n - st.count)],
               count |-> st.count]
         ELSE [results |-> [st.results EXCEPT ![i] = <<>>], count |-> st.count]
    ELSE [results |-> st.results, count |-> 0]

\* one iteration of the final loop, on item t = results[i]
join_step(st, i, t) ==
    IF IsInt(t)
    THEN IF t.n > st.count
         THEN [results |-> [st.results EXCEPT ![i] = Repeat(LF, t.n - st.count)],
               count |-> t.n]
         ELSE [results |-> [st.results EXCEPT ![i] = <<>>], count |-> st.count]
    ELSE [results |-> st.results, count |-> 0]

RECURSIVE join_loop(_, _)
\* the locals of the final loop after k iterations
join_loop(results, k) ==
    IF k = 0 THEN join_init(results)
    ELSE join_step(join_loop(results, k - 1), k, results[k])

\* get_textContent from the filter on: x is the item list after normalisation
finalize(x) ==
    LET results == pop_trailing(pop_leading(filter_results(x)))
    IN Concat(join_loop(results, Len(results)).results)

\* the item list get_textContent hands to the filter
normalised(el, x) == IF ~is_pre_rendered(el) THEN do_whitespace(x) ELSE x

get_textContent(el, replace_img, img_to_src, base_url) ==
    finalize(normalised(el,
        inner_text_collection(el, replace_img, img_to_src, base_url, FALSE, 1, TRUE)))

\* ------------------------------------------------------------------ inputs
MaxNodes == 3
MaxBreak == 2
MaxLen == 5
MaxItems == 5

\* the texts of the text nodes
Texts ==
    {<<SP, CharA, SP, SP, CharB, SP>>, <<LF, CharA, TAB>>, <<SP, LF>>}

\* the elements of the trees: <<name, attrs>>
Elements ==
    {<<"div", {}>>, <<"p", {}>>, <<"pre", {}>>, <<"span", {}>>, <<"xmp", {}>>,
     <<"table", {}>>, <<"form", {}>>, <<"dialog", {}>>, <<"script", {}>>,
     <<"span", {<<"hidden", <<>>>>}>>, <<"br", {}>>,
     <<"img", {<<"alt", <<CharB>>>>}>>}

\* the elements of the trees of every shape
SmallElements ==
    {<<"div", {}>>, <<"p", {}>>, <<"pre", {}>>, <<"span", {}>>, <<"xmp", {}>>,
     <<"span", {<<"hidden", <<>>>>}>>, <<"br", {}>>}

Leaves == {NavigableString(str) : str \in Texts} \cup {Comment(<<CharA>>)}

\* the trees with k nodes, given the sequences of trees with k - 1 nodes in all
TreesOver(forests, k) ==
    IF k = 1 THEN Leaves \cup {Tag(e[1], e[2], <<>>) : e \in SmallElements}
    ELSE {Tag(e[1], e[2], f) : e \in SmallElements, f \in forests}

\* the sequences of trees with n nodes in all
Forests[n \in 0..(MaxNodes - 1)] ==
    IF n = 0 THEN {<<>>}
    ELSE UNION {{<<tr>> \o f : tr \in TreesOver(Forests[k - 1], k), f \in Forests[n - k]} :
                   k \in 1..n}

\* the trees with n nodes
TreesOfSize(n) == TreesOver(Forests[n - 1], n)

\* every tree of at most MaxNodes nodes
SmallTrees == UNION {TreesOfSize(n) : n \in 1..MaxNodes}

\* text, <br>, text under every element
BrTrees ==
    {Tag(e[1], e[2], <<NavigableString(a), Tag("br", {}, <<>>), NavigableString(b)>>) :
        e \in Elements, a \in Texts, b \in Texts}

\* a <pre> with two children between two texts, under a block-level, a
\* paragraph and an inline root
PreTrees ==
    {Tag(r, {}, <<NavigableString(a),
                  Tag("pre", {}, <<k, NavigableString(a)>>),
                  NavigableString(a)>>) :
        r \in {"div", "p", "span"}, a \in Texts,
        k \in Leaves \cup {Tag(e[1], e[2], c) : e \in Elements, c \in {<<>>} \cup {<<n>> : n \in Leaves}}}

\* an element with one text between two texts, under every element
NestedTrees ==
    {Tag(r[1], r[2], <<NavigableString(a),
                       Tag(e[1], e[2], <<NavigableString(b)>>),
                       NavigableString(a)>>) :
        r \in Elements, e \in Elements, a \in Texts, b \in Texts}

Trees == SmallTrees \cup BrTrees \cup PreTrees \cup NestedTrees

\* the calls: get_textContent(el, replace_img), which calls
\* inner_text_collection(el, replace_img, img_to_src, base_url, first=True), and
\* inner_text_collection called on its own
Calls ==
    [api : {"get_textContent"}, replace_img : BOOLEAN, img_to_src : {TRUE},
     pre_mode : {FALSE}, required_line_break_count : {1}, first : {TRUE}]
    \cup
    [api : {"inner_text_collection"}, replace_img : {TRUE}, img_to_src : {FALSE},
     pre_mode : BOOLEAN, required_line_break_count : 1..MaxBreak, first : BOOLEAN]

base_url == <<>>

\* the strings do_whitespace_internal is applied to
Alphabet == {SP, TAB, LF, ZWS, CharA}
Strings == UNION {[1..k -> Alphabet] : k \in 0..MaxLen}

\* the item lists the finalizer is applied to
FinalItems ==
    {Text(<<CharA>>), Text(<<>>), Num(BLOCK_BEGIN), Num(BLOCK_END)}
    \cup {Num(k) : k \in 1..MaxBreak}
FinalLists == UNION {[1..k -> FinalItems] : k \in 0..MaxItems}

\* ------------------------------------------------------------------- state
VARIABLES
    el,        \* the node the call is made on
    call,      \* the function called and its arguments
    pc,        \* where the call stands
    items,     \* the item list: inner_text_collection's return value, then x
    ws_arg,    \* the argument of the last call of do_whitespace made for el itself
    ws_ret,    \* and its return value
    result,    \* the string get_textContent returns
    l,         \* the argument of do_whitespace_internal
    s          \* the string do_whitespace_internal returns

vars == <<el, call, pc, items, ws_arg, ws_ret, result, l, s>>

NoItems == <<>>

GetTextContentCall ==
    [api |-> "get_textContent", replace_img |-> TRUE, img_to_src |-> TRUE,
     pre_mode |-> FALSE, required_line_break_count |-> 1, first |-> TRUE]

Init ==
    /\ el \in Trees
    /\ call \in Calls
    /\ pc = "start"
    /\ items = NoItems
    /\ ws_arg = NoItems
    /\ ws_ret = NoItems
    /\ result = <<>>
    /\ l = <<>>
    /\ s = <<>>

\* inner_text_collection(el, ...): the whole call, the calls on the children
\* included; the block-level step's call of do_whitespace is recorded
InnerTextCollection ==
    /\ pc = "start"
    /\ LET pm == call.pre_mode \/ is_pre_rendered(el)
           kids == Concat([i \in 1..Len(el.children) |->
                       inner_text_collection(el.children[i], call.replace_img,
                                             call.img_to_src, base_url, pm,
                                             call.required_line_break_count, FALSE)])
           tagged == tag_items(el, kids, call.replace_img, call.img_to_src, base_url,
                               call.required_line_break_count)
           reaches == (call.first \/ is_rendered(el)) /\ ~IsNavigableString(el)
                      /\ el.name \in BlockLevel /\ ~pm
       IN /\ items' = inner_text_collection(el, call.replace_img, call.img_to_src,
                                            base_url, call.pre_mode,
                                            call.required_line_break_count, call.first)
          /\ ws_arg' = IF reaches THEN tagged ELSE ws_arg
          /\ ws_ret' = IF reaches THEN do_whitespace(tagged) ELSE ws_ret
          /\ pc' = IF reaches THEN "collected_ws" ELSE "collected"
    /\ UNCHANGED <<el, call, result, l, s>>

\* get_textContent: if not is_pre_rendered(el): x = do_whitespace(x)
Normalise ==
    /\ pc \in {"collected", "collected_ws"}
    /\ call.api = "get_textContent"
    /\ items' = normalised(el, items)
    /\ ws_arg' = IF ~is_pre_rendered(el) THEN items ELSE ws_arg
    /\ ws_ret' = IF ~is_pre_rendered(el) THEN do_whitespace(items) ELSE ws_ret
    /\ pc' = IF ~is_pre_rendered(el) THEN "normalised_ws" ELSE "normalised"
    /\ UNCHANGED <<el, call, result, l, s>>

\* get_textContent from the filter to the return
Finalize ==
    /\ pc \in {"normalised", "normalised_ws"}
    /\ result' = finalize(items)
    /\ pc' = "done"
    /\ UNCHANGED <<el, call, items, ws_arg, ws_ret, l, s>>

Next == InnerTextCollection \/ Normalise \/ Finalize

Spec == Init /\ [][Next]_vars

\* ---------------------------------- do_whitespace_internal on its own
InitRun ==
    /\ l \in {<<str>> : str \in Strings}
    /\ pc = "run"
    /\ s = <<>>
    /\ el = NavigableString(<<>>)
    /\ call = GetTextContentCall
    /\ items = NoItems
    /\ ws_arg = NoItems
    /\ ws_ret = NoItems
    /\ result = <<>>

\* s = do_whitespace_internal(l)
WhitespaceInternal ==
    /\ pc = "run"
    /\ s' = do_whitespace_internal(l)
    /\ pc' = "once"
    /\ UNCHANGED <<el, call, items, ws_arg, ws_ret, result, l>>

\* result = do_whitespace_internal([s])
WhitespaceInternalAgain ==
    /\ pc = "once"
    /\ result' = do_whitespace_internal(<<s>>)
    /\ pc' = "twice"
    /\ UNCHANGED <<el, call, items, ws_arg, ws_ret, l, s>>

NextRun == WhitespaceInternal \/ WhitespaceInternalAgain

SpecRun == InitRun /\ [][NextRun]_vars

\* ------------------------------------------- the finalizer on its own
InitFinal ==
    /\ items \in FinalLists
    /\ pc = "normalised"
    /\ el = NavigableString(<<>>)
    /\ call = GetTextContentCall
    /\ ws_arg = NoItems
    /\ ws_ret = NoItems
    /\ result = <<>>
    /\ l = <<>>
    /\ s = <<>>

NextFinal == Finalize

SpecFinal == InitFinal /\ [][NextFinal]_vars

\* ------------------------------------------------------------ properties
Whitespace == {SP, TAB, LF}

\* str holds a character that is no space, tab or line-feed
HasNonWhitespace(str) == \E i \in 1..Len(str) : str[i] \notin Whitespace

\* a occurs in b as a contiguous subsequence
OccursIn(a, b) ==
    \E i \in 0..(Len(b) - Len(a)) : SubSeq(b, i + 1, i + Len(a)) = a

\* the integer items of a list, in order
NonTextItems(x) == SelectSeq(x, IsInt)

\* how many of the first k items of x are the integer m
CountOf(x, k, m) == Cardinality({i \in 1..k : x[i] = Num(m)})

\* BLOCK_BEGIN and BLOCK_END nest properly in x
Balanced(x) ==
    /\ \A k \in 1..Len(x) : CountOf(x, k, BLOCK_BEGIN) >= CountOf(x, k, BLOCK_END)
    /\ CountOf(x, Len(x), BLOCK_BEGIN) = CountOf(x, Len(x), BLOCK_END)

\* the nesting depth of x after its first k items
DepthAt(x, k) == CountOf(x, k, BLOCK_BEGIN) - CountOf(x, k, BLOCK_END)

RECURSIVE Descendants(_)
\* the nodes below a node
Descendants(node) ==
    UNION {{node.children[i]} \cup Descendants(node.children[i]) :
              i \in 1..Len(node.children)}

\* the call is get_textContent's and has returned
Returned == pc = "done" /\ call.api = "get_textContent"

\* C1: the string get_textContent returns neither starts nor ends with a
\* line-feed or a space
C1_NoLeadingOrTrailingWhitespace ==
    Returned /\ result # <<>>
        => result[1] \notin {LF, SP} /\ result[Len(result)] \notin {LF, SP}

\* C2: the integer items of do_whitespace's return value are the integer items
\* of its argument, in the same order: a required line break count outside a
\* block passes through
C2_NonTextItemsPassThrough ==
    pc \in {"collected_ws", "normalised_ws"}
        => NonTextItems(ws_ret) = NonTextItems(ws_arg)

\* C3: inner_text_collection on a rendered <p> returns BLOCK_BEGIN, 1, n, the
\* content, n, 1, BLOCK_END, with n the required_line_break_count, in pre-mode
\* or not
C3_ParagraphKeepsBothLayers ==
    /\ pc \in {"collected", "collected_ws"}
    /\ el.type = TagType
    /\ el.name = "p"
    /\ call.first \/ is_rendered(el)
    => LET n == call.required_line_break_count
           len == Len(items)
       IN /\ len >= 6
          /\ SubSeq(items, 1, 3) = <<Num(BLOCK_BEGIN), Num(1), Num(n)>>
          /\ SubSeq(items, len - 2, len) = <<Num(n), Num(1), Num(BLOCK_END)>>

\* item i of x lies in a BLOCK_BEGIN .. BLOCK_END region, the markers included
InBlock(x, i) == DepthAt(x, i) > 0 \/ DepthAt(x, i - 1) > 0

\* the items of x that lie in a region, in order
BlockItems(x) ==
    LET inside == {i \in 1..Len(x) : InBlock(x, i)}
        RECURSIVE Pick(_)
        Pick(i) == IF i > Len(x) THEN <<>>
                   ELSE IF i \in inside THEN <<x[i]>> \o Pick(i + 1)
                   ELSE Pick(i + 1)
    IN Pick(1)

\* the items inner_text_collection returns for a node below el
CollectedFor(d) ==
    inner_text_collection(d, call.replace_img, call.img_to_src, base_url, FALSE,
                          call.required_line_break_count, FALSE)

\* the <pre> elements below el
PreDescendants == {d \in Descendants(el) : d.type = TagType /\ d.name = "pre"}

\* C4: the items collected for a <pre> below the root that are in the global
\* normaliser's argument are in its return value, item for item, and so is
\* every BLOCK_BEGIN .. BLOCK_END region, however deep it nests
C4_BlockIsolation ==
    pc = "normalised_ws"
        => /\ BlockItems(ws_ret) = BlockItems(ws_arg)
           /\ \A d \in PreDescendants :
                 /\ Balanced(CollectedFor(d))
                 /\ OccursIn(CollectedFor(d), ws_arg) => OccursIn(CollectedFor(d), ws_ret)

\* a <pre> with a nested region and a text that normalisation would change went
\* through the global normaliser, which changed a text outside it
C4_Witness ==
    /\ pc = "normalised_ws"
    /\ ws_ret # ws_arg
    /\ \E d \in PreDescendants :
          LET c == CollectedFor(d)
          IN /\ c # <<>>
             /\ OccursIn(c, ws_ret)
             /\ \E k \in 1..Len(c) : DepthAt(c, k) >= 2
             /\ \E k \in 1..Len(c) :
                   IsText(c[k]) /\ do_whitespace_internal(<<c[k].s>>) # c[k].s

\* C5: normalising a normalised string changes nothing
C5_NormalisationIdempotent ==
    pc = "twice" => result = s

\* a string that the first normalisation changed, to a non-empty string
C5_Witness ==
    pc = "twice" /\ s # l[1] /\ s # <<>> /\ result = s

\* the non-empty texts and the required line break counts of x
TextsAndBreaks(x) ==
    SelectSeq(x, LAMBDA t : (IsText(t) /\ t.s # <<>>) \/ (IsInt(t) /\ t.n >= 1))

\* the largest count among items i .. j of f
MaxBreakOf(f, i, j) ==
    CHOOSE m \in {f[k].n : k \in i..j} : \A k \in i..j : f[k].n <= m

RECURSIVE JoinRuns(_, _)
\* f from item i on, each run of counts that has a text on both sides replaced
\* by as many line-feeds as its largest count, every other run by nothing
JoinRuns(f, i) ==
    IF i > Len(f) THEN <<>>
    ELSE IF IsText(f[i]) THEN f[i].s \o JoinRuns(f, i + 1)
    ELSE LET j == CHOOSE j \in i..Len(f) :
                     /\ \A k \in i..j : IsInt(f[k])
                     /\ j = Len(f) \/ IsText(f[j + 1])
         IN IF (\E k \in 1..(i - 1) : IsText(f[k])) /\ j < Len(f)
            THEN Repeat(LF, MaxBreakOf(f, i, j)) \o JoinRuns(f, j + 1)
            ELSE JoinRuns(f, j + 1)

\* C6: in the returned string every run of required line break counts between
\* two texts is as many line-feeds as the largest count of the run, and the
\* running count is 0 after every text item
C6_BreaksCollapseToMax ==
    pc = "done"
        => /\ result = JoinRuns(TextsAndBreaks(items), 1)
           /\ LET results == pop_trailing(pop_leading(filter_results(items)))
              IN \A k \in 1..Len(results) :
                    IsText(results[k]) => join_loop(results, k).count = 0

\* the counts 1, 2, 1 between two texts came out as two line-feeds
C6_Witness ==
    /\ pc = "done"
    /\ items = <<Text(<<CharA>>), Num(1), Num(2), Num(1), Text(<<CharA>>)>>
    /\ result = <<CharA, LF, LF, CharA>>

\* the nodes the visibility rules reject: a comment, a dialog without open, a
\* form directly under a table part, an element with hidden, a never-rendered
\* tag
Rejected(node) ==
    \/ node.type = CommentType
    \/ node.type = TagType /\ node.name = "dialog"
       /\ "open" \notin {a[1] : a \in node.attrs}
    \/ node.type = TagType /\ node.name = "form"
       /\ node.parent \in {"table", "thead", "tbody", "tfoot", "tr"}
    \/ node.type = TagType /\ "hidden" \in {a[1] : a \in node.attrs}
    \/ node.type = TagType /\ node.name \in NeverRendered

\* seq without its item i
RemoveAt(seq, i) == SubSeq(seq, 1, i - 1) \o SubSeq(seq, i + 1, Len(seq))

RECURSIVE Pruned(_)
\* the trees that are node with one rejected node below it removed
Pruned(node) ==
    {[node EXCEPT !.children = RemoveAt(@, i)] :
        i \in {j \in 1..Len(node.children) : Rejected(node.children[j])}}
    \cup
    UNION {{[node EXCEPT !.children[i] = c] : c \in Pruned(node.children[i])} :
              i \in 1..Len(node.children)}

\* el has a text child with a character that is no whitespace
HasTextChild(node) ==
    \E i \in 1..Len(node.children) :
        /\ node.children[i].type = NavigableStringType
        /\ HasNonWhitespace(node.children[i].string)

\* C7: a rejected node below the root yields no items, the returned string is
\* that of the tree without the node, and a rejected root still yields the
\* text of its children
C7_Visibility ==
    Returned
        => /\ \A d \in Descendants(el) : Rejected(d) => CollectedFor(d) = <<>>
           /\ \A e \in Pruned(el) :
                 get_textContent(e, call.replace_img, call.img_to_src, base_url) = result
           /\ Rejected(el) /\ el.type = TagType /\ HasTextChild(el) => result # <<>>

\* a rejected root with a text child returned a string, and below it is a
\* rejected element with a text in it
C7_Witness ==
    /\ Returned
    /\ result # <<>>
    /\ Rejected(el) /\ el.type = TagType /\ HasTextChild(el)
    /\ \E d \in Descendants(el) :
          Rejected(d) /\ d.type = TagType /\ HasTextChild(d)

\* the children of el are a text, a <br> and a text, each text with a
\* character that is no whitespace
TextBrText ==
    /\ el.type = TagType
    /\ Len(el.children) = 3
    /\ el.children[1].type = NavigableStringType
    /\ HasNonWhitespace(el.children[1].string)
    /\ el.children[2].type = TagType
    /\ el.children[2].name = "br"
    /\ el.children[3].type = NavigableStringType
    /\ HasNonWhitespace(el.children[3].string)

\* normalize(A), one line-feed, normalize(B)
OneLineFeedBetween ==
    result = do_whitespace_internal(<<el.children[1].string>>) \o <<LF>>
             \o do_whitespace_internal(<<el.children[3].string>>)

\* C8 as stated: under every block-level or <p> root, text, <br>, text comes
\* out as the two normalised texts with exactly one line-feed between them
C8_BrOneLineFeed ==
    Returned /\ TextBrText /\ el.name \in BlockLevel \cup {"p"}
        => OneLineFeedBetween

\* C8 amended: the same under every block-level or <p> root that is not a
\* whitespace-preserving element (pre)
C8_BrOneLineFeedNotPre ==
    Returned /\ TextBrText /\ el.name \in (BlockLevel \cup {"p"}) /\ ~is_pre_rendered(el)
        => OneLineFeedBetween

\* a <div> and a <p> root with whitespace on both sides of the <br>
C8_Witness ==
    /\ Returned
    /\ TextBrText
    /\ el.name \in {"div", "p"}
    /\ el.children[1].string[Len(el.children[1].string)] \in Whitespace
    /\ el.children[3].string[1] \in Whitespace
    /\ OneLineFeedBetween

\* C9: the items inner_text_collection returns and the items do_whitespace
\* returns are balanced, and the depth counter of do_whitespace is never
\* negative and is 0 after the loop
C9_BalancedBlockMarkers ==
    /\ pc \in {"collected", "collected_ws"} => Balanced(items)
    /\ pc \in {"collected_ws", "normalised_ws"}
          => /\ Balanced(ws_ret)
             /\ \A k \in 0..Len(ws_arg) :
                   do_whitespace_loop(ws_arg, k).skip_to_block_end >= 0
             /\ do_whitespace_loop(ws_arg, Len(ws_arg)).skip_to_block_end = 0

\* do_whitespace ran over a list that nests regions two deep
C9_Witness ==
    /\ pc = "normalised_ws"
    /\ \E k \in 1..Len(ws_arg) : do_whitespace_loop(ws_arg, k).skip_to_block_end >= 2
    /\ Balanced(ws_ret)

RECURSIVE PreservedTexts(_, _)
\* the texts of the text nodes below or at node that are in a rendered
\* listing, plaintext, pre or xmp element, all their ancestors rendered and
\* none of them a br or an img
PreservedTexts(node, pre) ==
    IF node.type = NavigableStringType THEN (IF pre THEN {node.string} ELSE {})
    ELSE IF node.type = CommentType \/ Rejected(node) \/ node.name \in {"br", "img"}
    THEN {}
    ELSE UNION {PreservedTexts(node.children[i], pre \/ is_pre_rendered(node)) :
                   i \in 1..Len(node.children)}

\* C10: every text in a rendered listing, plaintext, pre or xmp element is in
\* the returned string with its whitespace as it is
C10_PreModePreservesWhitespace ==
    Returned => \A str \in PreservedTexts(el, FALSE) : OccursIn(str, result)

====
